---- MODULE Spec2Model ----
(***************************************************************************)
(* A model of blockbuffer.BlockBuffer: a ring buffer of audio frames that  *)
(* is written with extend() and read in blocks of block_size frames, hop   *)
(* by hop, with get() or by iterating over the buffer.                     *)
(*                                                                         *)
(* A BlockBuffer object is a record with the attributes of the class.  The *)
(* numpy arrays queue and return_buffer are sequences of rows, a row being *)
(* a sequence of num_channels samples; the dtype of each array is kept in  *)
(* queue_dtype and return_buffer_dtype.  The samples of the model are      *)
(* small integers, which every dtype of the model holds exactly.  An       *)
(* optional constructor argument is a sequence: <<>> when it is omitted    *)
(* (None), <<v>> when v is passed.                                         *)
(***************************************************************************)
EXTENDS Integers, Sequences, FiniteSets, TLC

\* ------------------------------------------------------------------------
\* Bounds of the model
\* ------------------------------------------------------------------------
MaxBlock == 3
MaxCapacity == 5
MaxChannels == 2
MaxChunk == 3
MaxFed == 6

\* ------------------------------------------------------------------------
\* Constants of the program
\* ------------------------------------------------------------------------
BLOCK_BUFFER_DEFAULT_CAPACITY_BLOCKS == 64

VARIABLES
    args,        \* the arguments the constructor was called with
    bb,          \* the BlockBuffer under study (the result of the constructor)
    ref,         \* a second BlockBuffer, same block and hop size, large capacity
    stream,      \* the rows of every extend of bb that succeeded, in call order
    num_blocks,  \* the number of blocks bb has returned so far
    overflowed,  \* some extend so far found length + num_frames > capacity
    pre,         \* bb as it was before the last call
    last,        \* the last call: its operation, its input and what it returned
    gens         \* the generators obtained from bb, and what each has yielded

vars == <<args, bb, ref, stream, num_blocks, overflowed, pre, last, gens>>

\* ------------------------------------------------------------------------
\* Arrays
\* ------------------------------------------------------------------------
\* np.zeros((rows, cols))
zeros(rows, cols) == [i \in 1..rows |-> [c \in 1..cols |-> 0]]

\* np.pad(queue, ((0, size_increase), (0, 0))): size_increase rows of zeros
\* after the last row of the array.
pad(queue, size_increase, cols) ==
    queue \o zeros(size_increase, cols)

\* A pad that returns an array of numpy's default float type.
pad_dtype_default(dtype) ==
    "float64"

\* The dtype of the array np.pad returns: the dtype of the array it is given.
pad_dtype(dtype) ==
    dtype

\* ------------------------------------------------------------------------
\* BlockBuffer.__init__
\* ------------------------------------------------------------------------
\* The exception the four checks of the constructor raise, or "none".
CheckConfig(block_size, hop_size, capacity) ==
    IF hop_size = 0 THEN "BlockBufferValueException"
    ELSE IF block_size = 0 THEN "BlockBufferValueException"
    ELSE IF hop_size > block_size THEN "BlockBufferValueException"
    ELSE IF capacity < block_size + hop_size THEN "BlockBufferValueException"
    ELSE "none"

\* self.capacity: the capacity passed when it is truthy, the default otherwise.
DefaultCapacity(block_size, cap_arg) ==
    IF cap_arg # <<>> /\ cap_arg[1] # 0
    THEN cap_arg[1]
    ELSE block_size * BLOCK_BUFFER_DEFAULT_CAPACITY_BLOCKS

\* The object the constructor leaves behind.  created is "ok" when the
\* constructor returned, and the exception it raised otherwise (np.zeros
\* raises ValueError on a negative dimension); then no buffer exists.
init(block_size, hop_arg, num_channels, cap_arg, auto_resize, dtype, always_2d) ==
    LET hop_size == IF hop_arg # <<>> THEN hop_arg[1] ELSE block_size
        capacity == DefaultCapacity(block_size, cap_arg)
        check    == CheckConfig(block_size, hop_size, capacity)
        raised   == IF check # "none" THEN check
                    ELSE IF capacity < 0 \/ block_size < 0 THEN "ValueError"
                    ELSE "none"
    IN  [ block_size     |-> block_size,
          hop_size       |-> hop_size,
          num_channels   |-> num_channels,
          write_position |-> 0,
          read_position  |-> 0,
          length         |-> 0,
          auto_resize    |-> auto_resize,
          always_2d      |-> always_2d,
          capacity       |-> capacity,
          queue          |-> IF raised = "none"
                             THEN zeros(capacity, num_channels) ELSE <<>>,
          queue_dtype    |-> dtype,
          return_buffer  |-> IF raised = "none"
                             THEN zeros(block_size, num_channels) ELSE <<>>,
          return_buffer_dtype |-> dtype,
          created        |-> IF raised = "none" THEN "ok" ELSE raised ]

\* ------------------------------------------------------------------------
\* BlockBuffer.extend
\* ------------------------------------------------------------------------
\* The argument of extend: kind is "ndarray" or "list", ndim the number of
\* dimensions (the nesting depth of a list), cols the size of the second
\* dimension (1 for a 1D input) and rows the frames, one row of cols samples
\* per frame.

\* The type checking and array validation: the exception raised, or "none".
\* Formatting the message of the channel error reads frames.shape[1], which
\* a 1D array does not have (IndexError), and a list is judged by frames[0],
\* which an empty list does not have (IndexError).
ValidateFrames(b, frames) ==
    IF frames.kind = "ndarray"
    THEN IF frames.ndim > 2 THEN "BlockBufferValueException"
         ELSE IF frames.ndim = 2 /\ frames.cols # b.num_channels
              THEN "BlockBufferValueException"
         ELSE IF frames.ndim = 1 /\ b.num_channels > 1 THEN "IndexError"
         ELSE "none"
    ELSE IF Len(frames.rows) = 0 THEN "IndexError"
         ELSE IF b.num_channels = 1
              THEN IF frames.ndim > 1 THEN "BlockBufferValueException"
                   ELSE "none"
         ELSE IF frames.ndim = 1 THEN "BlockBufferValueException"
         ELSE IF frames.cols # b.num_channels THEN "BlockBufferValueException"
         ELSE "none"

\* Overflows with the room after the write head taken for the room left.
OverflowsAtWriteHead(b, num_frames) ==
    (b.write_position % b.capacity) + num_frames > b.capacity

\* The buffer cannot take num_frames more frames.
Overflows(b, num_frames) ==
    b.length + num_frames > b.capacity

\* Resize that grows by at least the capacity, as an amortised growth would.
ResizeDoubling(b, size_increase) ==
    LET grow == IF size_increase > b.capacity THEN size_increase
                ELSE b.capacity
    IN  [b EXCEPT !.queue = pad(b.queue, grow, b.num_channels),
                  !.queue_dtype = pad_dtype(b.queue_dtype),
                  !.capacity = b.capacity + grow]

\* The resize of the buffer: the queue is padded and the capacity raised.
Resize(b, size_increase) ==
    [b EXCEPT !.queue = pad(b.queue, size_increase, b.num_channels),
              !.queue_dtype = pad_dtype(b.queue_dtype),
              !.capacity = b.capacity + size_increase]

\* The write without wrapping: queue[write_position:write_position + n] = rows
WriteNoWrap(queue, write_position, rows) ==
    [p \in 1..Len(queue) |->
        IF write_position < p /\ p <= write_position + Len(rows)
        THEN rows[p - write_position]
        ELSE queue[p]]

\* The write that wraps: queue[write_position:] = rows[:remaining_frames],
\* then queue[:n - remaining_frames] = rows[remaining_frames:]
WriteWrap(queue, write_position, capacity, rows) ==
    LET remaining_frames == capacity - write_position
        tail == [p \in 1..Len(queue) |->
                    IF write_position < p THEN rows[p - write_position]
                    ELSE queue[p]]
    IN  [p \in 1..Len(queue) |->
            IF p <= Len(rows) - remaining_frames
            THEN rows[remaining_frames + p]
            ELSE tail[p]]

\* The write of the samples, for every kind of input.
WriteFrames(b, rows) ==
    IF b.write_position + Len(rows) <= b.capacity
    THEN [b EXCEPT !.queue = WriteNoWrap(b.queue, b.write_position, rows)]
    ELSE [b EXCEPT !.queue = WriteWrap(b.queue, b.write_position, b.capacity, rows)]

\* Update length and write position.
Advance(b, num_frames) ==
    [b EXCEPT !.length = b.length + num_frames,
              !.write_position = b.write_position + num_frames]

\* extend(frames): the buffer afterwards and the exception raised, or "none".
\* A list nested deeper than two levels passes the validation when its rows
\* have num_channels entries; numpy then refuses the first row assignment
\* with a ValueError, after the resize and the reduction of write_position.
extend(b, frames) ==
    LET raised     == ValidateFrames(b, frames)
        num_frames == Len(frames.rows)
        overflow   == Overflows(b, num_frames)
        resized    == IF overflow
                      THEN Resize(b, b.length + num_frames - b.capacity)
                      ELSE b
        reduced    == [resized EXCEPT
                          !.write_position = resized.write_position % resized.capacity]
    IN  IF raised # "none" THEN [bb |-> b, raised |-> raised]
        ELSE IF overflow /\ ~b.auto_resize
             THEN [bb |-> b, raised |-> "BlockBufferFullException"]
        ELSE IF frames.ndim > 2
             THEN [bb |-> reduced, raised |-> "ValueError"]
        ELSE [bb |-> Advance(WriteFrames(reduced, frames.rows), num_frames),
              raised |-> "none"]

\* ------------------------------------------------------------------------
\* BlockBuffer.get
\* ------------------------------------------------------------------------
\* What get returns when no block is available.
NoBlock == [kind |-> "None", start |-> 0, value |-> <<>>, dtype |-> "None"]

\* The shape of a returned block: rv[:, 0] for one channel without
\* always_2d, the rows themselves otherwise.
Shape(b, rows) ==
    IF b.num_channels = 1 /\ ~b.always_2d
    THEN [i \in 1..Len(rows) |-> rows[i][1]]
    ELSE rows

\* ReadWrap with the head segment taken from the slots after the tail's
\* length instead of the start of the queue.
ReadWrapHeadShifted(queue, read_position, capacity, block_size) ==
    LET remaining_frames == capacity - read_position
    IN  [i \in 1..block_size |->
            IF i <= remaining_frames
            THEN queue[read_position + i]
            ELSE queue[i]]

\* The block assembled in return_buffer when the read wraps:
\* return_buffer[:remaining_frames] = queue[read_position:], then
\* return_buffer[remaining_frames:] = queue[:block_size - remaining_frames]
ReadWrap(queue, read_position, capacity, block_size) ==
    LET remaining_frames == capacity - read_position
    IN  [i \in 1..block_size |->
            IF i <= remaining_frames
            THEN queue[read_position + i]
            ELSE queue[i - remaining_frames]]

\* The block read in place: queue[read_position:read_position + block_size]
ReadView(queue, read_position, block_size) ==
    SubSeq(queue, read_position + 1, read_position + block_size)

\* Available with the comparison made strict.
AvailableStrict(b) ==
    b.length > b.block_size

\* A block can be read.
Available(b) ==
    b.length >= b.block_size

\* Hop by a whole block instead of hop_size.
HopByBlock(b) ==
    [b EXCEPT !.length = b.length - b.block_size,
              !.read_position = (b.read_position + b.block_size) % b.capacity]

\* Hop with the read position left unreduced.
HopUnreduced(b) ==
    [b EXCEPT !.length = b.length - b.hop_size,
              !.read_position = b.read_position + b.hop_size]

\* The move of the read head.
Hop(b) ==
    [b EXCEPT !.length = b.length - b.hop_size,
              !.read_position = (b.read_position + b.hop_size) % b.capacity]

\* get(): the buffer afterwards and the block returned.  A block is a view
\* of the queue (kind "view") or the return_buffer itself (kind
\* "return_buffer"); value is its content when get returns and dtype the
\* dtype of the array it is a view of.
get(b) ==
    IF Available(b)
    THEN IF b.read_position + b.block_size <= b.capacity
         THEN [bb |-> Hop(b),
               rv |-> [kind  |-> "view",
                       start |-> b.read_position,
                       value |-> Shape(b, ReadView(b.queue, b.read_position,
                                                    b.block_size)),
                       dtype |-> b.queue_dtype]]
         ELSE LET filled == ReadWrap(b.queue, b.read_position, b.capacity,
                                     b.block_size)
              IN  [bb |-> Hop([b EXCEPT !.return_buffer = filled]),
                   rv |-> [kind  |-> "return_buffer",
                           start |-> b.read_position,
                           value |-> Shape(b, filled),
                           dtype |-> b.return_buffer_dtype]]
    ELSE [bb |-> b, rv |-> NoBlock]

\* ------------------------------------------------------------------------
\* BlockBuffer.blocks, BlockBuffer.__iter__
\* ------------------------------------------------------------------------
\* The generator run to its end, as list(bb) runs it: the buffer afterwards
\* and the blocks yielded, in order.
RECURSIVE blocks(_, _)
blocks(b, yielded) ==
    LET got == get(b)
    IN  IF got.rv.kind # "None"
        THEN blocks(got.bb, Append(yielded, got.rv))
        ELSE [bb |-> b, yielded |-> yielded]

\* One next() of a generator of bb.blocks, which is "created" (not started),
\* "suspended" (at its yield) or "done", that takes two blocks from the
\* buffer and yields the second.
blocks_next_skipping(b, state) ==
    IF state = "done"
    THEN [bb |-> b, state |-> "done", rv |-> NoBlock,
          raised |-> "StopIteration"]
    ELSE LET got == get(get(b).bb)
         IN  IF got.rv.kind # "None"
             THEN [bb |-> got.bb, state |-> "suspended", rv |-> got.rv,
                   raised |-> "none"]
             ELSE [bb |-> got.bb, state |-> "done", rv |-> NoBlock,
                   raised |-> "StopIteration"]

\* One next() of a generator of bb.blocks, which is "created" (not started),
\* "suspended" (at its yield) or "done": the loop runs from where it stands
\* to its next yield or to its return; a generator that returned raises
\* StopIteration without running any code.
blocks_next(b, state) ==
    IF state = "done"
    THEN [bb |-> b, state |-> "done", rv |-> NoBlock,
          raised |-> "StopIteration"]
    ELSE LET got == get(b)
         IN  IF got.rv.kind # "None"
             THEN [bb |-> got.bb, state |-> "suspended", rv |-> got.rv,
                   raised |-> "none"]
             ELSE [bb |-> got.bb, state |-> "done", rv |-> NoBlock,
                   raised |-> "StopIteration"]

\* What an array returned earlier holds now: a view shows the queue, and the
\* return_buffer shows whatever the last wrapped read left in it.
Content(b, rv) ==
    IF rv.kind = "return_buffer"
    THEN Shape(b, b.return_buffer)
    ELSE Shape(b, ReadView(b.queue, rv.start, b.block_size))

\* ------------------------------------------------------------------------
\* The calls the model makes
\* ------------------------------------------------------------------------
\* The sample of channel c of the i-th frame ever accepted.
Sample(i, c) == i + (c - 1) * (MaxFed + 1)

\* num_frames frames that continue the stream.
Rows(first, num_frames, cols) ==
    [j \in 1..num_frames |-> [c \in 1..cols |-> Sample(first + j, c)]]

Frames(kind, ndim, cols, first, num_frames) ==
    [kind |-> kind, ndim |-> ndim, cols |-> cols,
     rows |-> Rows(first, num_frames, cols)]

NoFrames == [kind |-> "none", ndim |-> 0, cols |-> 0, rows |-> <<>>]

\* The capacity of ref: no write and no read ever reaches its end.
RefCapacity == MaxFed + 2 * MaxBlock

\* The constructor calls of the model: every block size, hop size, capacity,
\* channel count, auto_resize and always_2d that are given and positive,
\* with the dtype of the signature.
Calls ==
    [block_size : 1..MaxBlock, hop_size : {<<h>> : h \in 1..MaxBlock},
     num_channels : 1..MaxChannels, capacity : {<<c>> : c \in 1..MaxCapacity},
     auto_resize : BOOLEAN, dtype : {"float32"}, always_2d : BOOLEAN]

\* The constructor calls for blocks of one frame with every channel count,
\* with and without auto_resize, and the calls with a block size that is
\* negative, zero or one and a hop size and a capacity that are given,
\* omitted, zero or negative, for one channel without auto_resize.
AnyCalls ==
    { a \in Calls : a.block_size = 1 } \cup
    [block_size : -1..1,
     hop_size : {<<>>} \cup {<<h>> : h \in -1..MaxBlock},
     num_channels : {1},
     capacity : {<<>>} \cup {<<c>> : c \in -1..MaxCapacity},
     auto_resize : {FALSE}, dtype : {"float32"}, always_2d : {FALSE}]

\* The dtypes of test_blockbuffer_dtypes.
Dtypes == {"int16", "int32", "float16", "float32", "float64"}

\* The constructor calls with a dtype: blocks of one or two frames read with
\* a hop of one frame from a buffer of three or four frames.
DtypeCalls ==
    [block_size : 1..2, hop_size : {<<1>>}, num_channels : 1..MaxChannels,
     capacity : {<<3>>, <<4>>}, auto_resize : BOOLEAN, dtype : Dtypes,
     always_2d : {FALSE}]

\* BlockBuffer(**a)
BlockBuffer(a) ==
    init(a.block_size, a.hop_size, a.num_channels, a.capacity, a.auto_resize,
         a.dtype, a.always_2d)

\* The inputs of extend: arrays and lists of one, two and three dimensions.
Shapes ==
    { s \in [kind : {"ndarray", "list"}, ndim : 1..3, cols : 1..MaxChannels] :
        s.ndim = 1 => s.cols = 1 }

\* The numbers of frames an input of shape s can have: an empty list is [],
\* of one dimension.
Sizes(s) ==
    { n \in 0..MaxChunk : (s.kind = "list" /\ s.ndim > 1) => n > 0 }

\* The inputs of extend made for a buffer of num_channels channels: a flat
\* array or list of samples for one channel, a 2D array of num_channels
\* columns, a list of rows of num_channels samples for several channels.
MatchingShapes(num_channels) ==
    { s \in Shapes :
        \/ s.ndim = 1 /\ num_channels = 1
        \/ s.ndim = 2 /\ s.cols = num_channels
              /\ (s.kind = "list" => num_channels > 1) }

\* The generators the model holds.
Iterators == {1, 2}

\* iter(bb): a generator that has not started.  Besides its state, the model
\* keeps whether the generator has run alone (since it first ran, no frame
\* was accepted and no block was returned to anyone else) and, as long as it
\* has, the length of the buffer when it first ran and the number of blocks
\* it has yielded.
NewGenerator ==
    [state |-> "created", alone |-> FALSE, start_length |-> 0, count |-> 0]

\* The generator is no longer alone.
Disturbed(gen) ==
    [gen EXCEPT !.alone = FALSE, !.start_length = 0, !.count = 0]

InitWith(calls) ==
    /\ gens = [i \in Iterators |-> NewGenerator]
    /\ args \in calls
    /\ bb = BlockBuffer(args)
    /\ ref = BlockBuffer([args EXCEPT !.capacity = <<RefCapacity>>])
    /\ stream = <<>>
    /\ num_blocks = 0
    /\ overflowed = FALSE
    /\ pre = bb
    /\ last = [op |-> "init", frames |-> NoFrames, raised |-> bb.created,
               rv |-> NoBlock, ref_rv |-> NoBlock, yielded |-> <<>>,
               listed |-> <<>>]

\* bb.extend(frames)
ExtendWith(frames) ==
    LET done == extend(bb, frames)
    IN  /\ bb.created = "ok"
        /\ Len(stream) + Len(frames.rows) <= MaxFed
        /\ bb' = done.bb
        /\ stream' = IF done.raised = "none"
                     THEN stream \o frames.rows ELSE stream
        /\ overflowed' = (overflowed \/
               (ValidateFrames(bb, frames) = "none"
                /\ Overflows(bb, Len(frames.rows))))
        /\ last' = [op |-> "extend", frames |-> frames,
                    raised |-> done.raised, rv |-> NoBlock,
                    ref_rv |-> NoBlock, yielded |-> <<>>, listed |-> <<>>]
        /\ pre' = bb
        /\ UNCHANGED <<args, num_blocks>>

\* bb.extend(frames) with an input made for the buffer.
Extend ==
    /\ \E s \in MatchingShapes(bb.num_channels) : \E num_frames \in Sizes(s) :
          ExtendWith(Frames(s.kind, s.ndim, s.cols, Len(stream), num_frames))
    /\ UNCHANGED <<ref, gens>>

\* bb.extend(frames) with an input of any shape.
ExtendAny ==
    /\ \E s \in Shapes : \E num_frames \in Sizes(s) :
          ExtendWith(Frames(s.kind, s.ndim, s.cols, Len(stream), num_frames))
    /\ UNCHANGED <<ref, gens>>

\* bb.get()
GetWith(rgot) ==
    LET got == get(bb)
    IN  /\ bb.created = "ok"
        /\ bb.length - bb.hop_size <= MaxFed   \* bounds length when hop_size < 0
        /\ bb' = got.bb
        /\ num_blocks' = IF got.rv.kind # "None"
                         THEN num_blocks + 1 ELSE num_blocks
        /\ last' = [op |-> "get", frames |-> NoFrames, raised |-> "none",
                    rv |-> got.rv, ref_rv |-> rgot, yielded |-> <<>>,
                    listed |-> <<>>]
        /\ pre' = bb
        /\ UNCHANGED <<args, stream, overflowed, gens>>

Get ==
    /\ GetWith(NoBlock)
    /\ UNCHANGED ref

\* list(bb): the generator of bb.blocks run to its end; yielded holds what
\* each block held when it was yielded, listed what the collected arrays
\* hold when the list is complete.
ListBlocks ==
    /\ bb.created = "ok"
    /\ bb.hop_size > 0   \* the loop never ends on a buffer built with hop_size < 0
    /\ LET run == blocks(bb, <<>>)
       IN  /\ bb' = run.bb
           /\ num_blocks' = num_blocks + Len(run.yielded)
           /\ last' = [op |-> "list", frames |-> NoFrames, raised |-> "none",
                       rv |-> NoBlock, ref_rv |-> NoBlock,
                       yielded |-> [i \in 1..Len(run.yielded) |->
                                       run.yielded[i].value],
                       listed |-> [i \in 1..Len(run.yielded) |->
                                      Content(run.bb, run.yielded[i])]]
    /\ pre' = bb
    /\ UNCHANGED <<args, ref, stream, overflowed, gens>>

Init == InitWith(Calls)

Next == Extend \/ Get \/ ListBlocks

Spec == Init /\ [][Next]_vars

\* Any constructor call, and any input of extend.
InitAny == InitWith(AnyCalls)

NextAny == ExtendAny \/ Get \/ ListBlocks

SpecAny == InitAny /\ [][NextAny]_vars

\* The constructor calls of the runs with generators: blocks of one or two
\* frames, a hop of one frame forwards or backwards, a buffer of three frames
\* of one channel.
IterCalls ==
    [block_size : 1..2, hop_size : {<<-1>>, <<1>>}, num_channels : {1},
     capacity : {<<3>>}, auto_resize : BOOLEAN, dtype : {"float32"},
     always_2d : {FALSE}]

\* bb.extend(frames) while the generators stand where they are
ExtendIter ==
    /\ \E s \in MatchingShapes(bb.num_channels) : \E num_frames \in Sizes(s) :
          ExtendWith(Frames(s.kind, s.ndim, s.cols, Len(stream), num_frames))
    /\ gens' = [i \in Iterators |->
                   IF stream' # stream THEN Disturbed(gens[i]) ELSE gens[i]]
    /\ UNCHANGED ref

\* next(it) for the generator it = gens[i]
IterNext(i) ==
    LET ran     == blocks_next(bb, gens[i].state)
        started == IF gens[i].state = "created"
                   THEN [gens[i] EXCEPT !.alone = TRUE,
                                        !.start_length = bb.length]
                   ELSE gens[i]
        yields  == ran.rv.kind # "None"
    IN  /\ bb.created = "ok"
        /\ bb.length - bb.hop_size <= MaxFed   \* bounds length when hop_size < 0
        /\ bb' = ran.bb
        /\ num_blocks' = IF yields THEN num_blocks + 1 ELSE num_blocks
        /\ gens' = [j \in Iterators |->
               IF j = i
               THEN [started EXCEPT
                        !.state = ran.state,
                        !.count = IF yields /\ started.alone
                                  THEN started.count + 1 ELSE started.count]
               ELSE IF yields THEN Disturbed(gens[j]) ELSE gens[j]]
        /\ last' = [op |-> "next", frames |-> NoFrames, raised |-> ran.raised,
                    rv |-> ran.rv, ref_rv |-> NoBlock, yielded |-> <<>>,
                    listed |-> <<>>]
        /\ pre' = bb
        /\ UNCHANGED <<args, ref, stream, overflowed>>

InitIter == InitWith(IterCalls)

NextIter ==
    \/ ExtendIter
    \/ \E i \in Iterators : IterNext(i)

\* extend, and iteration over the buffer by two generators, step by step.
SpecIter == InitIter /\ [][NextIter]_vars

\* The calls of Spec on a buffer of every dtype.
InitDtype == InitWith(DtypeCalls)

SpecDtype == InitDtype /\ [][Next]_vars

\* The same calls made on bb and on ref, as long as neither overflows.
ExtendPair ==
    /\ ref.created = "ok"
    /\ \E s \in MatchingShapes(bb.num_channels) : \E num_frames \in Sizes(s) :
          LET frames == Frames(s.kind, s.ndim, s.cols, Len(stream), num_frames)
          IN  /\ bb.length + num_frames <= bb.capacity
              /\ ref.length + num_frames <= ref.capacity
              /\ ExtendWith(frames)
              /\ ref' = extend(ref, frames).bb
    /\ UNCHANGED gens

GetPair ==
    /\ ref.created = "ok"
    /\ GetWith(get(ref).rv)
    /\ ref' = get(ref).bb

NextPair == ExtendPair \/ GetPair

SpecPair == Init /\ [][NextPair]_vars

\* ------------------------------------------------------------------------
\* Properties
\* ------------------------------------------------------------------------
\* A configuration the constructor is meant to accept.
ValidConfig(b) ==
    /\ b.created = "ok"
    /\ 0 < b.hop_size
    /\ b.hop_size <= b.block_size
    /\ b.capacity >= b.block_size + b.hop_size

\* The k-th block of the stream (k = 0, 1, ...), in the shape get returns.
StreamBlock(k) ==
    Shape(bb, SubSeq(stream, k * bb.hop_size + 1,
                     k * bb.hop_size + bb.block_size))

\* The last call returned blocks, and each is the block of the stream whose
\* turn it was: the (num_blocks - 1)-th for a get, and the blocks up to it
\* for the blocks a list(bb) was yielded.
BlocksFollowStream ==
    /\ (last.op = "get" /\ last.rv.kind # "None") =>
          /\ (num_blocks - 1) * bb.hop_size + bb.block_size <= Len(stream)
          /\ last.rv.value = StreamBlock(num_blocks - 1)
    /\ last.op = "list" =>
          \A i \in 1..Len(last.yielded) :
              /\ (num_blocks - 1) * bb.hop_size + bb.block_size <= Len(stream)
              /\ last.yielded[i] =
                    StreamBlock(num_blocks - Len(last.yielded) + i - 1)

\* C1: without auto_resize, the k-th get that returns a block returns frames
\* [k*hop_size, k*hop_size + block_size) of the concatenation of the inputs of
\* the extend calls that succeeded, for every valid configuration and every
\* interleaving of extend and get.
C1_BlocksFollowStream ==
    (ValidConfig(bb) /\ ~bb.auto_resize) => BlocksFollowStream

\* A wrapped read of overlapping blocks, after an extend was refused and
\* after at least two earlier blocks: the case C1 is about.
C1_Witness ==
    /\ ValidConfig(bb) /\ ~bb.auto_resize
    /\ bb.hop_size < bb.block_size
    /\ overflowed
    /\ last.op = "get" /\ last.rv.kind = "return_buffer"
    /\ num_blocks >= 3

\* C2: with auto_resize, the k-th get that returns a block still returns
\* frames [k*hop_size, k*hop_size + block_size) of the concatenation of all
\* extended inputs, whatever growth happened in between.
C2_GrowthPreservesUnread ==
    (ValidConfig(bb) /\ bb.auto_resize) => BlocksFollowStream

\* C3: without auto_resize, an extend of n frames with length + n > capacity
\* raises BlockBufferFullException and leaves the whole buffer as it was.
C3_FullLeavesBufferUnchanged ==
    (bb.created = "ok" /\ last.op = "extend") =>
       /\ (/\ ~pre.auto_resize
           /\ ValidateFrames(pre, last.frames) = "none"
           /\ pre.length + Len(last.frames.rows) > pre.capacity)
          => last.raised = "BlockBufferFullException"
       /\ last.raised = "BlockBufferFullException" => bb = pre

\* An extend refused while the buffer holds unread frames and the read head
\* has moved.
C3_Witness ==
    /\ last.op = "extend" /\ last.raised = "BlockBufferFullException"
    /\ ValidConfig(bb)
    /\ bb.length > 0 /\ bb.read_position > 0
    /\ bb.length + Len(last.frames.rows) > bb.capacity
    /\ (bb.write_position % bb.capacity) + Len(last.frames.rows) <= bb.capacity

\* C4: with auto_resize, an extend of n frames that passes the validation
\* raises capacity by length + n - capacity when length + n > capacity (and
\* when it succeeds the buffer is then exactly full), and leaves capacity
\* alone otherwise; a rejected extend, get and iteration never change capacity.
C4_CapacityGrowsByOverflow ==
    (bb.created = "ok" /\ bb.auto_resize) =>
       /\ (last.op = "extend" /\ ValidateFrames(pre, last.frames) = "none") =>
             LET n == Len(last.frames.rows)
             IN  IF pre.length + n > pre.capacity
                 THEN /\ bb.capacity - pre.capacity
                            = pre.length + n - pre.capacity
                      /\ last.raised = "none" => bb.capacity = bb.length
                 ELSE bb.capacity = pre.capacity
       /\ (last.op = "extend" /\ ValidateFrames(pre, last.frames) # "none") =>
             bb.capacity = pre.capacity
       /\ last.op \in {"get", "list"} => bb.capacity = pre.capacity

\* A growth of a buffer that held unread frames, after blocks were read.
C4_Witness ==
    /\ ValidConfig(bb) /\ bb.auto_resize
    /\ last.op = "extend" /\ last.raised = "none"
    /\ bb.capacity > pre.capacity
    /\ pre.length > 0 /\ pre.read_position > 0

\* C5: get returns None exactly when length < block_size, and a get that
\* returns None changes nothing.
C5_NoneIffShort ==
    (bb.created = "ok" /\ last.op = "get") =>
       /\ last.rv.kind = "None" <=> pre.length < pre.block_size
       /\ last.rv.kind = "None" => bb = pre
       /\ last.rv.kind # "None" => pre.length >= pre.block_size

\* A get that returned None from a buffer that holds frames, fewer than a
\* block, after a block was read.
C5_Witness ==
    /\ ValidConfig(bb)
    /\ last.op = "get" /\ last.rv.kind = "None"
    /\ 0 < bb.length /\ bb.length < bb.block_size
    /\ num_blocks > 0

\* C6: a buffer whose reads and writes wrap and a buffer of the same block
\* and hop size that never wraps, given the same extend and get calls of
\* which none overflows, return the same from every get.
C6_WrapInvisible ==
    (ValidConfig(bb) /\ last.op = "get") =>
       /\ last.rv.kind = "None" <=> last.ref_rv.kind = "None"
       /\ last.rv.value = last.ref_rv.value

\* A read that wrapped in bb and not in ref, after a write that wrapped, with
\* a capacity that is no multiple of the block size nor of the hop size.
C6_Witness ==
    /\ ValidConfig(bb)
    /\ bb.capacity % bb.block_size # 0
    /\ bb.capacity % bb.hop_size # 0
    /\ last.op = "get"
    /\ last.rv.kind = "return_buffer" /\ last.ref_rv.kind = "view"
    /\ bb.write_position > bb.capacity

\* The four conditions of the constructor, on the arguments as passed.
ValidCall(a) ==
    LET hop_size == IF a.hop_size # <<>> THEN a.hop_size[1] ELSE a.block_size
        capacity == DefaultCapacity(a.block_size, a.capacity)
    IN  /\ hop_size > 0
        /\ a.block_size > 0
        /\ hop_size <= a.block_size
        /\ capacity >= a.block_size + hop_size

\* C7: the constructor raises a value error (its own, or the ValueError of
\* numpy) for every integer configuration that violates hop_size > 0,
\* block_size > 0, hop_size <= block_size or capacity >= block_size +
\* hop_size, so every buffer that exists satisfies them.
C7_ConstructionValidates ==
    /\ ~ValidCall(args) => bb.created \in {"BlockBufferValueException", "ValueError"}
    /\ bb.created = "ok" => ValidConfig(bb)

\* The input of an extend does not match the buffer.
ShapeMismatch(b, frames) ==
    /\ frames.kind = "ndarray" \/ Len(frames.rows) > 0
    /\ \/ frames.ndim > 2
       \/ frames.ndim = 2 /\ frames.cols # b.num_channels
       \/ frames.ndim = 1 /\ b.num_channels > 1

\* C8: extend rejects every input whose shape does not match the buffer
\* (every array, and every list that holds a frame) with
\* BlockBufferValueException, and leaves the buffer unchanged.
C8_ShapeRejected ==
    (bb.created = "ok" /\ last.op = "extend"
        /\ ShapeMismatch(pre, last.frames)) =>
       /\ last.raised = "BlockBufferValueException"
       /\ bb = pre

\* C9: after list(bb) on a buffer that holds length >= block_size at offset r
\* of the stream, the i-th collected element holds frames
\* [r + i*hop_size, r + i*hop_size + block_size) of the stream.
C9_ListHoldsBlocksInOrder ==
    (ValidConfig(bb) /\ ~overflowed /\ last.op = "list"
        /\ pre.length >= pre.block_size) =>
       LET r == Len(stream) - pre.length
       IN  \A i \in 1..Len(last.listed) :
              last.listed[i] =
                 Shape(bb, SubSeq(stream, r + (i - 1) * bb.hop_size + 1,
                                  r + (i - 1) * bb.hop_size + bb.block_size))

\* C10: a buffer built without a capacity has capacity block_size * 8, and
\* without a hop size has hop_size block_size; without auto_resize it takes
\* 8 * block_size unread frames and no more.
C10_DefaultCapacity ==
    (bb.created = "ok" /\ args.capacity = <<>>) =>
       /\ last.op = "init" => bb.capacity = args.block_size * 8
       /\ args.hop_size = <<>> => bb.hop_size = args.block_size
       /\ (~bb.auto_resize /\ last.op = "extend"
             /\ ValidateFrames(pre, last.frames) = "none") =>
             (last.raised = "BlockBufferFullException"
                <=> pre.length + Len(last.frames.rows) > args.block_size * 8)

\* C11: every block a get returns has block_size rows; for num_channels > 1,
\* or with always_2d, each row has num_channels samples and row j of the k-th
\* block is the (k*hop_size + j)-th frame written, channel by channel; for
\* one channel without always_2d the block is flat and its j-th entry is the
\* sample of that frame.
C11_FramesKeptWhole ==
    (ValidConfig(bb) /\ last.op = "get" /\ last.rv.kind # "None") =>
       LET k     == num_blocks - 1
           block == last.rv.value
       IN  /\ Len(block) = bb.block_size
           /\ k * bb.hop_size + bb.block_size <= Len(stream)
           /\ \A j \in 1..bb.block_size :
                 LET frame == stream[k * bb.hop_size + j]
                 IN  IF bb.num_channels = 1 /\ ~bb.always_2d
                     THEN block[j] = frame[1]
                     ELSE /\ Len(block[j]) = bb.num_channels
                          /\ \A c \in 1..bb.num_channels :
                                block[j][c] = frame[c]

\* C12: the queue, the return_buffer and every block returned, by get or to
\* list(bb), a view or a wrapped copy, before or after a growth, have the
\* dtype passed to the constructor.
C12_DtypeKept ==
    bb.created = "ok" =>
       /\ bb.queue_dtype = args.dtype
       /\ bb.return_buffer_dtype = args.dtype
       /\ (last.op = "get" /\ last.rv.kind # "None") =>
             last.rv.dtype = args.dtype
       /\ last.op = "list" =>
             LET run == blocks(pre, <<>>)
             IN  \A i \in 1..Len(run.yielded) :
                    run.yielded[i].dtype = args.dtype

\* A block of a dtype other than the default was read as a view of the queue
\* after the queue was replaced by a growth.
C12_Witness ==
    /\ args.dtype = "int16"
    /\ bb.capacity > args.capacity[1]
    /\ last.op = "get" /\ last.rv.kind = "view"
    /\ last.rv.dtype = "int16"
    /\ num_blocks >= 2

\* C13: in every state both cursors lie in [0, capacity), and an extend of n
\* frames that succeeds leaves write_position at (old write_position + n)
\* modulo the capacity.
C13_CursorsReduced ==
    bb.created = "ok" =>
       /\ 0 <= bb.read_position /\ bb.read_position < bb.capacity
       /\ 0 <= bb.write_position /\ bb.write_position < bb.capacity
       /\ (last.op = "extend" /\ last.raised = "none") =>
             bb.write_position =
                (pre.write_position + Len(last.frames.rows)) % bb.capacity

\* C14: in every state of a buffer that exists, 0 <= length <= capacity.
C14_LengthWithinCapacity ==
    bb.created = "ok" =>
       /\ 0 <= bb.length
       /\ bb.length <= bb.capacity

\* C15: a get that returns a block moves read_position to (read_position +
\* hop_size) modulo capacity and lowers length by hop_size; apart from the
\* return_buffer it fills when the read wraps, it changes nothing else:
\* write_position, capacity and the queue stay as they were.
C15_GetMovesReadHeadOnly ==
    (bb.created = "ok" /\ last.op = "get" /\ last.rv.kind # "None") =>
       /\ bb.read_position = (pre.read_position + pre.hop_size) % pre.capacity
       /\ bb.length = pre.length - pre.hop_size
       /\ bb.write_position = pre.write_position
       /\ bb.capacity = pre.capacity
       /\ bb.queue = pre.queue
       /\ bb = [pre EXCEPT !.read_position = bb.read_position,
                           !.length = bb.length,
                           !.return_buffer = bb.return_buffer]

\* A wrapped read of overlapping blocks moved the read head past the end of
\* the queue and left the overlap counted in length.
C15_Witness ==
    /\ ValidConfig(bb)
    /\ last.op = "get" /\ last.rv.kind = "return_buffer"
    /\ bb.hop_size < bb.block_size
    /\ bb.read_position < pre.read_position
    /\ bb.length >= bb.block_size - bb.hop_size
    /\ bb.length < bb.block_size
    /\ bb.return_buffer # pre.return_buffer

\* The number of blocks the claim gives an iteration started at length L.
ExpectedBlocks(L, block_size, hop_size) ==
    IF L < block_size THEN 0
    ELSE ((L - block_size) \div hop_size) + 1

\* C16: an iteration started at length L, with no extend and no other reader
\* in between, never yields more than floor((L - block_size) / hop_size) + 1
\* blocks (0 blocks if L < block_size); when it ends it has yielded exactly
\* that many and length < block_size, so that an iteration started then
\* yields nothing.
C16_IterationYieldsAllBlocks ==
    \A i \in Iterators :
       (bb.created = "ok" /\ gens[i].alone) =>
          LET expected == ExpectedBlocks(gens[i].start_length, bb.block_size,
                                         bb.hop_size)
          IN  /\ gens[i].count <= expected
              /\ gens[i].state = "done" =>
                    /\ gens[i].count = expected
                    /\ bb.length < bb.block_size

\* C17: two generators of the same buffer, advanced in any order, read with
\* one cursor: a next() that yields a block returns what a get() in its place
\* returns and leaves the buffer as that get() leaves it, whichever generator
\* it is, so the blocks yielded are, in the order of the calls, the blocks of
\* the stream (as long as no growth has displaced them), none twice and none
\* skipped; a next() that ends its generator changes nothing.
C17_IterationsShareCursor ==
    (bb.created = "ok" /\ last.op = "next") =>
       /\ last.raised = "none" =>
             /\ last.rv.kind # "None"
             /\ [bb |-> bb, rv |-> last.rv] = get(pre)
             /\ (ValidConfig(bb) /\ ~(bb.auto_resize /\ overflowed)) =>
                   /\ (num_blocks - 1) * bb.hop_size + bb.block_size
                         <= Len(stream)
                   /\ last.rv.value = StreamBlock(num_blocks - 1)
       /\ last.raised # "none" =>
             /\ last.raised = "StopIteration"
             /\ last.rv.kind = "None"
             /\ bb = pre

\* Both generators have yielded blocks and neither has ended: the third or a
\* later block of the buffer, a wrapped read that overlaps the block before
\* it, was yielded while the other generator stood at its yield.
C17_Witness ==
    /\ ValidConfig(bb)
    /\ bb.hop_size < bb.block_size
    /\ \A i \in Iterators : gens[i].state = "suspended"
    /\ last.op = "next" /\ last.rv.kind = "return_buffer"
    /\ num_blocks >= 3

\* C18: in every state, which is the start of the next extend or get,
\* write_position is congruent to read_position + length modulo capacity:
\* the next write lands right after the last unread frame.
C18_WriteHeadFollowsUnread ==
    bb.created = "ok" =>
       (bb.write_position - (bb.read_position + bb.length)) % bb.capacity = 0

\* C19: an extend with zero frames whose shape matches the buffer, an empty
\* array or an empty list, raises nothing and leaves length, read_position,
\* capacity and the queue unchanged; and every extend ends with success, a
\* value error or BlockBufferFullException.
C19_EmptyExtendIsNoOp ==
    (bb.created = "ok" /\ last.op = "extend") =>
       /\ (Len(last.frames.rows) = 0 /\ ~ShapeMismatch(pre, last.frames)) =>
             /\ last.raised = "none"
             /\ bb.length = pre.length
             /\ bb.read_position = pre.read_position
             /\ bb.capacity = pre.capacity
             /\ bb.queue = pre.queue
       /\ last.raised \in {"none", "BlockBufferValueException", "ValueError",
                           "BlockBufferFullException"}

====
